---- MODULE Spec2Model ----
(***************************************************************************)
(* Model of xivo_test_helpers/until.py: the four polling helpers assert_,  *)
(* true, false and return_, and the failure NoMoreTries they raise.        *)
(*                                                                         *)
(* One behaviour of the model is one call of one helper.  Init draws the   *)
(* helper and its keyword arguments; every action is one step of the       *)
(* helper's loop.  The probe is the environment: each invocation returns a *)
(* value or raises an exception, chosen nondeterministically.              *)
(*                                                                         *)
(* Time is counted in integer units.  Every interval of the model is a     *)
(* multiple of 10 units, so that interval / 10 (line 129) is exact.        *)
(***************************************************************************)
EXTENDS Integers, Sequences, FiniteSets, TLC

VARIABLES
    fn,             \* the helper that was called
    message,        \* kwargs.pop('message', None)
    tries,          \* kwargs.pop('tries', 1)
    interval,       \* kwargs.pop('interval', 1)
    timeout,        \* kwargs.pop('timeout')            (return_ only)
    pc,             \* position in the helper's body
    i,              \* number of iterations of the for loop completed
    errors,         \* errors = []                      (assert_ only)
    return_value,   \* return_value = False
    start_time,     \* executions(): start_time
    time_spent,     \* executions(): time_spent
    next_execution, \* the value the generator yielded last
    now,            \* what time.time() reads
    calls,          \* history: outcome of every probe invocation, in order
    sleeps,         \* history: argument of every completed time.sleep
    skipped,        \* history: number of ticks skipped at line 137
    result,         \* how the call ended, NoResult while it runs
    parked          \* the locals of a second call, in another thread

vars == <<fn, message, tries, interval, timeout, pc, i, errors, return_value,
          start_time, time_spent, next_execution, now, calls, sleeps,
          skipped, result, parked>>

----------------------------------------------------------------------------
(* Bounds of the model.                                                    *)

MaxTries == 3
MaxIntervalTenths == 2
MaxTimeout == 22
MaxProbeDuration == 12
MaxJitter == 1
MaxConcTries == 2
MaxConcTimeout == 2

----------------------------------------------------------------------------
(* Python values: a type name and the text str() gives.                    *)

PyNone == [t |-> "NoneType", s |-> "None"]
PyFalse == [t |-> "bool", s |-> "False"]
PyTrue == [t |-> "bool", s |-> "True"]
PyInt(n) == [t |-> "int", s |-> ToString(n)]
PyStr(s) == [t |-> "str", s |-> s]

(* Python's truth value testing, as used by `if message:` (line 43),       *)
(* `if return_value:` (line 70) and `if not return_value:` (line 99).      *)
bool(v) ==
    CASE v.t = "NoneType" -> FALSE
      [] v.t = "bool" -> v.s = "True"
      [] v.t = "int" -> v.s # "0"
      [] v.t = "str" -> v.s # ""

(* str(v) and repr(v) of a value.                                          *)
str(v) == v.s
repr(v) == IF v.t = "str" THEN "'" \o v.s \o "'" ELSE v.s

Truthy == {PyTrue, PyInt(42), PyStr("ready")}
Falsy == {PyNone, PyFalse, PyInt(0), PyStr("")}
Values == Truthy \cup Falsy

----------------------------------------------------------------------------
(* Exceptions: the class and the args tuple.                               *)

Exc(type, args) == [type |-> type, args |-> args]
NoExc == Exc("", <<>>)

(* class NoMoreTries(Exception), raised with one argument.                 *)
NoMoreTries(msg) == Exc("NoMoreTries", <<msg>>)

(* isinstance(e, AssertionError) and isinstance(e, Exception) for the      *)
(* classes the probe of the model raises.  KeyboardInterrupt derives from  *)
(* BaseException only.                                                     *)
IsAssertionError(e) == e.type = "AssertionError"
IsException(e) == e.type \in {"AssertionError", "ValueError", "NoMoreTries"}

(* six.text_type(e): BaseException.__str__ gives '' without args, str of   *)
(* the argument with one, and the repr of the args tuple otherwise.        *)
RECURSIVE join(_, _)
join(sep, strs) ==
    IF Len(strs) = 0 THEN ""
    ELSE IF Len(strs) = 1 THEN strs[1]
    ELSE strs[1] \o sep \o join(sep, Tail(strs))

text_type(e) ==
    IF Len(e.args) = 0 THEN ""
    ELSE IF Len(e.args) = 1 THEN str(e.args[1])
    ELSE "(" \o join(", ", [k \in 1..Len(e.args) |-> repr(e.args[k])]) \o ")"

----------------------------------------------------------------------------
(* Outcomes of a probe invocation and of the whole call.                   *)

Return(v) == [kind |-> "return", exc |-> NoExc, value |-> v]
Raise(e) == [kind |-> "raise", exc |-> e, value |-> PyNone]
NoResult == [kind |-> "running", exc |-> NoExc, value |-> PyNone]

AssertionErrors ==
    {Exc("AssertionError", <<>>),
     Exc("AssertionError", <<PyStr("a")>>),
     Exc("AssertionError", <<PyStr("b")>>),
     Exc("AssertionError", <<PyStr("a"), PyInt(1)>>)}
OtherErrors ==
    {Exc("ValueError", <<PyStr("v")>>), Exc("KeyboardInterrupt", <<>>)}

ProbeOutcomes ==
    {Return(v) : v \in Values} \cup {Raise(e) : e \in AssertionErrors \cup OtherErrors}

----------------------------------------------------------------------------
(* The arguments a call is made with.                                      *)

Messages == {PyNone, PyStr(""), PyStr("timed out")}
Tries == (0 - 1)..MaxTries
Intervals == {10 * n : n \in 1..MaxIntervalTenths}
Timeouts == 0..MaxTimeout
ProbeDurations == {0, 1, MaxProbeDuration}

(* InRange with one iteration too many.                                    *)
InRange_Inclusive(k, n) == k >= 0 /\ k <= n

(* InRange for a loop that tests after its body: one iteration at least.   *)
InRange_AtLeastOnce(k, n) == k = 0 \/ (k >= 0 /\ k < n)

(* six.moves.range(tries): the loop body runs for i = 0 .. tries-1.        *)
InRange(k, n) == k >= 0 /\ k < n

(* The local variables of a call as it is entered, lines 30-33, 63-66,     *)
(* 92-95 and 122-125.                                                      *)
InitialLocals(f, m, t, iv, to) ==
    [fn |-> f, message |-> m, tries |-> t, interval |-> iv, timeout |-> to,
     pc |-> "for", i |-> 0, errors |-> <<>>, return_value |-> PyFalse,
     start_time |-> 0, time_spent |-> 0, next_execution |-> 0,
     calls |-> <<>>, sleeps |-> <<>>, skipped |-> 0, result |-> NoResult]

(* No second call.                                                         *)
NoThread == InitialLocals("", PyNone, 0, 0, 0)

Init ==
    /\ fn \in {"assert_", "true", "false", "return_"}
    /\ message \in Messages
    /\ interval \in Intervals
    /\ IF fn = "return_"
       THEN tries = 0 /\ timeout \in Timeouts
       ELSE tries \in Tries /\ timeout = 0
    /\ pc = "for"
    /\ i = 0
    /\ errors = <<>>
    /\ return_value = PyFalse
    /\ start_time = 0
    /\ time_spent = 0
    /\ next_execution = 0
    /\ now = 0
    /\ calls = <<>>
    /\ sleeps = <<>>
    /\ skipped = 0
    /\ result = NoResult
    /\ parked = NoThread

----------------------------------------------------------------------------
(* assert_, lines 35-45.                                                   *)

(* assert_Body with the `return` of line 38 lost: the loop goes on.        *)
assert_Body_NoReturn(o) ==
    /\ calls' = Append(calls, o)
    /\ IF o.kind = "return"
       THEN /\ i' = i + 1
            /\ UNCHANGED <<result, pc, errors, sleeps>>
       ELSE IF IsAssertionError(o.exc)
       THEN /\ errors' = Append(errors, text_type(o.exc))
            /\ sleeps' = Append(sleeps, interval)
            /\ i' = i + 1
            /\ UNCHANGED <<result, pc>>
       ELSE /\ result' = Raise(o.exc)
            /\ pc' = "done"
            /\ UNCHANGED <<i, errors, sleeps>>

(* assert_Body with `except Exception` in place of line 39.                *)
assert_Body_CatchAll(o) ==
    /\ calls' = Append(calls, o)
    /\ IF o.kind = "return"
       THEN /\ result' = Return(PyNone)
            /\ pc' = "done"
            /\ UNCHANGED <<i, errors, sleeps>>
       ELSE IF IsException(o.exc)
       THEN /\ errors' = Append(errors, text_type(o.exc))
            /\ sleeps' = Append(sleeps, interval)
            /\ i' = i + 1
            /\ UNCHANGED <<result, pc>>
       ELSE /\ result' = Raise(o.exc)
            /\ pc' = "done"
            /\ UNCHANGED <<i, errors, sleeps>>

(* assert_Body with `return assert_function(...)` in place of lines 37-38. *)
assert_Body_ReturnsValue(o) ==
    /\ calls' = Append(calls, o)
    /\ IF o.kind = "return"
       THEN /\ result' = Return(o.value)
            /\ pc' = "done"
            /\ UNCHANGED <<i, errors, sleeps>>
       ELSE IF IsAssertionError(o.exc)
       THEN /\ errors' = Append(errors, text_type(o.exc))
            /\ sleeps' = Append(sleeps, interval)
            /\ i' = i + 1
            /\ UNCHANGED <<result, pc>>
       ELSE /\ result' = Raise(o.exc)
            /\ pc' = "done"
            /\ UNCHANGED <<i, errors, sleeps>>

(* One iteration of the loop, lines 35-41: the probe is invoked; a return  *)
(* ends the call with None, an AssertionError is recorded and followed by  *)
(* time.sleep(interval), any other exception leaves the function.          *)
assert_Body(o) ==
    /\ calls' = Append(calls, o)
    /\ IF o.kind = "return"
       THEN /\ result' = Return(PyNone)
            /\ pc' = "done"
            /\ UNCHANGED <<i, errors, sleeps>>
       ELSE IF IsAssertionError(o.exc)
       THEN /\ errors' = Append(errors, text_type(o.exc))
            /\ sleeps' = Append(sleeps, interval)
            /\ i' = i + 1
            /\ UNCHANGED <<result, pc>>
       ELSE /\ result' = Raise(o.exc)
            /\ pc' = "done"
            /\ UNCHANGED <<i, errors, sleeps>>

assert_Iteration ==
    /\ fn = "assert_" /\ pc = "for" /\ InRange(i, tries)
    /\ \E o \in ProbeOutcomes : assert_Body(o)
    /\ UNCHANGED <<parked, fn, message, tries, interval, timeout,
                   return_value, start_time, time_spent, next_execution,
                   now, skipped>>

(* assert_Exhausted with `if message is not None` in place of line 43.     *)
assert_Exhausted_IsNotNone ==
    IF message # PyNone THEN NoMoreTries(message)
    ELSE NoMoreTries(PyStr(join("\n", errors)))

(* The else clause of the loop, lines 42-45.                               *)
assert_Exhausted ==
    IF bool(message) THEN NoMoreTries(message)
    ELSE NoMoreTries(PyStr(join("\n", errors)))

assert_Else ==
    /\ fn = "assert_" /\ pc = "for" /\ ~InRange(i, tries)
    /\ result' = Raise(assert_Exhausted)
    /\ pc' = "done"
    /\ UNCHANGED <<parked, fn, message, tries, interval, timeout, i, errors,
                   return_value, start_time, time_spent, next_execution,
                   now, calls, sleeps, skipped>>

----------------------------------------------------------------------------
(* true, lines 68-74.                                                      *)

(* true_Body with `return True` in place of line 71.                       *)
true_Body_ReturnsTrue(o) ==
    /\ calls' = Append(calls, o)
    /\ IF o.kind = "raise"
       THEN /\ result' = Raise(o.exc)
            /\ pc' = "done"
            /\ UNCHANGED <<i, return_value, sleeps>>
       ELSE /\ return_value' = o.value
            /\ IF bool(o.value)
               THEN /\ result' = Return(PyTrue)
                    /\ pc' = "done"
                    /\ UNCHANGED <<i, sleeps>>
               ELSE /\ sleeps' = Append(sleeps, interval)
                    /\ i' = i + 1
                    /\ UNCHANGED <<result, pc>>

(* true_Body with the probe wrapped in the try / except AssertionError of  *)
(* assert_.                                                                *)
true_Body_CatchesAssertion(o) ==
    /\ calls' = Append(calls, o)
    /\ IF o.kind = "raise"
       THEN IF IsAssertionError(o.exc)
            THEN /\ sleeps' = Append(sleeps, interval)
                 /\ i' = i + 1
                 /\ UNCHANGED <<result, pc, return_value>>
            ELSE /\ result' = Raise(o.exc)
                 /\ pc' = "done"
                 /\ UNCHANGED <<i, return_value, sleeps>>
       ELSE /\ return_value' = o.value
            /\ IF bool(o.value)
               THEN /\ result' = Return(o.value)
                    /\ pc' = "done"
                    /\ UNCHANGED <<i, sleeps>>
               ELSE /\ sleeps' = Append(sleeps, interval)
                    /\ i' = i + 1
                    /\ UNCHANGED <<result, pc>>

(* true_Body without the sleep after the last of the tries attempts.       *)
true_Body_NoTrailingSleep(o) ==
    /\ calls' = Append(calls, o)
    /\ IF o.kind = "raise"
       THEN /\ result' = Raise(o.exc)
            /\ pc' = "done"
            /\ UNCHANGED <<i, return_value, sleeps>>
       ELSE /\ return_value' = o.value
            /\ IF bool(o.value)
               THEN /\ result' = Return(o.value)
                    /\ pc' = "done"
                    /\ UNCHANGED <<i, sleeps>>
               ELSE /\ sleeps' = IF i + 1 < tries
                                THEN Append(sleeps, interval) ELSE sleeps
                    /\ i' = i + 1
                    /\ UNCHANGED <<result, pc>>

(* One iteration, lines 69-72: nothing catches what the probe raises; a    *)
(* truthy value is returned, any other is followed by time.sleep(interval).*)
true_Body(o) ==
    /\ calls' = Append(calls, o)
    /\ IF o.kind = "raise"
       THEN /\ result' = Raise(o.exc)
            /\ pc' = "done"
            /\ UNCHANGED <<i, return_value, sleeps>>
       ELSE /\ return_value' = o.value
            /\ IF bool(o.value)
               THEN /\ result' = Return(o.value)
                    /\ pc' = "done"
                    /\ UNCHANGED <<i, sleeps>>
               ELSE /\ sleeps' = Append(sleeps, interval)
                    /\ i' = i + 1
                    /\ UNCHANGED <<result, pc>>

true_Iteration ==
    /\ fn = "true" /\ pc = "for" /\ InRange(i, tries)
    /\ \E o \in ProbeOutcomes : true_Body(o)
    /\ UNCHANGED <<parked, fn, message, tries, interval, timeout, errors,
                   start_time, time_spent, next_execution, now, skipped>>

(* The else clause of the loop, lines 73-74.                               *)
true_Else ==
    /\ fn = "true" /\ pc = "for" /\ ~InRange(i, tries)
    /\ result' = Raise(NoMoreTries(message))
    /\ pc' = "done"
    /\ UNCHANGED <<parked, fn, message, tries, interval, timeout, i, errors,
                   return_value, start_time, time_spent, next_execution,
                   now, calls, sleeps, skipped>>

----------------------------------------------------------------------------
(* false, lines 97-103.                                                    *)

(* false_Body with the test of true (line 70) in place of line 99.         *)
false_Body_TestOfTrue(o) ==
    /\ calls' = Append(calls, o)
    /\ IF o.kind = "raise"
       THEN /\ result' = Raise(o.exc)
            /\ pc' = "done"
            /\ UNCHANGED <<i, return_value, sleeps>>
       ELSE /\ return_value' = o.value
            /\ IF bool(o.value)
               THEN /\ result' = Return(o.value)
                    /\ pc' = "done"
                    /\ UNCHANGED <<i, sleeps>>
               ELSE /\ sleeps' = Append(sleeps, interval)
                    /\ i' = i + 1
                    /\ UNCHANGED <<result, pc>>

(* One iteration, lines 98-101: as true, with the test negated.            *)
false_Body(o) ==
    /\ calls' = Append(calls, o)
    /\ IF o.kind = "raise"
       THEN /\ result' = Raise(o.exc)
            /\ pc' = "done"
            /\ UNCHANGED <<i, return_value, sleeps>>
       ELSE /\ return_value' = o.value
            /\ IF ~bool(o.value)
               THEN /\ result' = Return(o.value)
                    /\ pc' = "done"
                    /\ UNCHANGED <<i, sleeps>>
               ELSE /\ sleeps' = Append(sleeps, interval)
                    /\ i' = i + 1
                    /\ UNCHANGED <<result, pc>>

false_Iteration ==
    /\ fn = "false" /\ pc = "for" /\ InRange(i, tries)
    /\ \E o \in ProbeOutcomes : false_Body(o)
    /\ UNCHANGED <<parked, fn, message, tries, interval, timeout, errors,
                   start_time, time_spent, next_execution, now, skipped>>

(* The else clause of the loop, lines 102-103.                             *)
false_Else ==
    /\ fn = "false" /\ pc = "for" /\ ~InRange(i, tries)
    /\ result' = Raise(NoMoreTries(message))
    /\ pc' = "done"
    /\ UNCHANGED <<parked, fn, message, tries, interval, timeout, i, errors,
                   return_value, start_time, time_spent, next_execution,
                   now, calls, sleeps, skipped>>

----------------------------------------------------------------------------
(* return_, lines 127-147.  In return_, i counts the ticks the generator   *)
(* has yielded; i = 0 means the generator has not been started.            *)

(* executions_time_spent without the division of line 129.                 *)
executions_time_spent_NoTenth ==
    IF i = 0 THEN interval ELSE time_spent + interval

(* executions_time_spent with the first tick at start_time itself.         *)
executions_time_spent_NoOffset ==
    IF i = 0 THEN 0 ELSE time_spent + interval

(* executions(), lines 128-132: the value of time_spent when the generator *)
(* is resumed and reaches the test of its while loop.                      *)
executions_time_spent ==
    IF i = 0 THEN interval \div 10 ELSE time_spent + interval

executions_start_time ==
    IF i = 0 THEN now ELSE start_time

(* return_Next with `while time_spent <= timeout` in place of line 130.    *)
return_Next_Inclusive ==
    /\ fn = "return_" /\ pc = "for"
    /\ executions_time_spent <= timeout
    /\ start_time' = executions_start_time
    /\ time_spent' = executions_time_spent
    /\ next_execution' = start_time' + time_spent'
    /\ i' = i + 1
    /\ pc' = "check"
    /\ UNCHANGED <<parked, fn, message, tries, interval, timeout, errors,
                   return_value, now, calls, sleeps, skipped, result>>

(* Line 134, the generator yields: while time_spent < timeout.             *)
return_Next ==
    /\ fn = "return_" /\ pc = "for"
    /\ executions_time_spent < timeout
    /\ start_time' = executions_start_time
    /\ time_spent' = executions_time_spent
    /\ next_execution' = start_time' + time_spent'
    /\ i' = i + 1
    /\ pc' = "check"
    /\ UNCHANGED <<parked, fn, message, tries, interval, timeout, errors,
                   return_value, now, calls, sleeps, skipped, result>>

(* Lines 146-147, the generator is exhausted: the else clause of the loop. *)
return_Else ==
    /\ fn = "return_" /\ pc = "for"
    /\ ~(executions_time_spent < timeout)
    /\ start_time' = executions_start_time
    /\ time_spent' = executions_time_spent
    /\ result' = Raise(NoMoreTries(message))
    /\ pc' = "done"
    /\ UNCHANGED <<parked, fn, message, tries, interval, timeout, i, errors,
                   return_value, next_execution, now, calls, sleeps,
                   skipped>>

(* Lines 135-137: time.time() is read, some time after the last reading;   *)
(* a tick whose target is already past is skipped.                         *)
return_Check ==
    /\ fn = "return_" /\ pc = "check"
    /\ \E e \in 0..MaxJitter :
        /\ now' = now + e
        /\ IF now' > next_execution
           THEN pc' = "for" /\ skipped' = skipped + 1
           ELSE pc' = "sleep" /\ UNCHANGED skipped
    /\ UNCHANGED <<parked, fn, message, tries, interval, timeout, i, errors,
                   return_value, start_time, time_spent, next_execution,
                   calls, sleeps, result>>

(* return_Sleep with time.sleep(interval) in place of line 140.            *)
return_Sleep_Interval ==
    /\ fn = "return_" /\ pc = "sleep"
    /\ \E e \in 0..MaxJitter, late \in 0..MaxJitter :
        /\ now' = now + e + interval + late
        /\ sleeps' = Append(sleeps, interval)
        /\ pc' = "call"
        /\ UNCHANGED result
    /\ UNCHANGED <<parked, fn, message, tries, interval, timeout, i, errors,
                   return_value, start_time, time_spent, next_execution,
                   calls, skipped>>

(* Lines 139-140: time.time() is read again and time.sleep(delay) is       *)
(* called.  time.sleep raises ValueError for a negative delay; otherwise   *)
(* it returns no earlier than the delay has passed.                        *)
return_Sleep ==
    /\ fn = "return_" /\ pc = "sleep"
    /\ \E e \in 0..MaxJitter, late \in 0..MaxJitter :
        LET delay == next_execution - (now + e) IN
        IF delay < 0
        THEN /\ now' = now + e
             /\ result' = Raise(Exc("ValueError", <<PyStr("sleep length must be non-negative")>>))
             /\ pc' = "done"
             /\ UNCHANGED sleeps
        ELSE /\ now' = now + e + delay + late
             /\ sleeps' = Append(sleeps, delay)
             /\ pc' = "call"
             /\ UNCHANGED result
    /\ UNCHANGED <<parked, fn, message, tries, interval, timeout, i, errors,
                   return_value, start_time, time_spent, next_execution,
                   calls, skipped>>

(* return_Body returning only a truthy value, as true does.                *)
return_Body_TruthyOnly(o) ==
    /\ calls' = Append(calls, o)
    /\ IF o.kind = "return" /\ bool(o.value)
       THEN result' = Return(o.value) /\ pc' = "done"
       ELSE IF o.kind = "return" \/ IsException(o.exc)
       THEN pc' = "for" /\ UNCHANGED result
       ELSE result' = Raise(o.exc) /\ pc' = "done"

(* return_Body with `except AssertionError` in place of line 144.          *)
return_Body_CatchesAssertion(o) ==
    /\ calls' = Append(calls, o)
    /\ IF o.kind = "return"
       THEN result' = Return(o.value) /\ pc' = "done"
       ELSE IF IsAssertionError(o.exc)
       THEN pc' = "for" /\ UNCHANGED result
       ELSE result' = Raise(o.exc) /\ pc' = "done"

(* Lines 142-145: the probe is invoked and takes some time; its value is   *)
(* returned, an Exception is logged and the loop goes on, anything else    *)
(* leaves the function.                                                    *)
return_Body(o) ==
    /\ calls' = Append(calls, o)
    /\ IF o.kind = "return"
       THEN result' = Return(o.value) /\ pc' = "done"
       ELSE IF IsException(o.exc)
       THEN pc' = "for" /\ UNCHANGED result
       ELSE result' = Raise(o.exc) /\ pc' = "done"

return_Call ==
    /\ fn = "return_" /\ pc = "call"
    /\ \E o \in ProbeOutcomes : return_Body(o)
    /\ \E d \in ProbeDurations : now' = now + d
    /\ UNCHANGED <<parked, fn, message, tries, interval, timeout, i, errors,
                   return_value, start_time, time_spent, next_execution,
                   sleeps, skipped>>

----------------------------------------------------------------------------
Next ==
    \/ assert_Iteration
    \/ assert_Else
    \/ true_Iteration
    \/ true_Else
    \/ false_Iteration
    \/ false_Else
    \/ return_Next
    \/ return_Else
    \/ return_Check
    \/ return_Sleep
    \/ return_Call

Spec == Init /\ [][Next]_vars

(* The thread that makes the call keeps running: time.sleep returns and,   *)
(* by hypothesis, so does every invocation of the probe.                   *)
SpecLive == Init /\ [][Next]_vars /\ WF_vars(Next)

----------------------------------------------------------------------------
(* Two calls in two threads.  The variables of a call are locals of its    *)
(* frame (lines 30-33, 63-66, 92-95, 122-132); the module holds no state   *)
(* but logger.  The variables above are the locals of the thread that is   *)
(* running, parked holds those of the other thread, and a thread switch    *)
(* exchanges them.  The clock is the one thing the threads share.          *)

Locals ==
    [fn |-> fn, message |-> message, tries |-> tries, interval |-> interval,
     timeout |-> timeout, pc |-> pc, i |-> i, errors |-> errors,
     return_value |-> return_value, start_time |-> start_time,
     time_spent |-> time_spent, next_execution |-> next_execution,
     calls |-> calls, sleeps |-> sleeps, skipped |-> skipped,
     result |-> result]

(* Switch with errors kept in one list that all the calls share.           *)
Switch_SharedErrors ==
    /\ parked # NoThread /\ parked.pc # "done"
    /\ parked' = [Locals EXCEPT !.errors = parked.errors]
    /\ fn' = parked.fn
    /\ message' = parked.message
    /\ tries' = parked.tries
    /\ interval' = parked.interval
    /\ timeout' = parked.timeout
    /\ pc' = parked.pc
    /\ i' = parked.i
    /\ return_value' = parked.return_value
    /\ start_time' = parked.start_time
    /\ time_spent' = parked.time_spent
    /\ next_execution' = parked.next_execution
    /\ calls' = parked.calls
    /\ sleeps' = parked.sleeps
    /\ skipped' = parked.skipped
    /\ result' = parked.result
    /\ UNCHANGED <<errors, now>>

(* The interpreter switches to the other thread, if it has not finished.   *)
Switch ==
    /\ parked # NoThread /\ parked.pc # "done"
    /\ parked' = Locals
    /\ fn' = parked.fn
    /\ message' = parked.message
    /\ tries' = parked.tries
    /\ interval' = parked.interval
    /\ timeout' = parked.timeout
    /\ pc' = parked.pc
    /\ i' = parked.i
    /\ errors' = parked.errors
    /\ return_value' = parked.return_value
    /\ start_time' = parked.start_time
    /\ time_spent' = parked.time_spent
    /\ next_execution' = parked.next_execution
    /\ calls' = parked.calls
    /\ sleeps' = parked.sleeps
    /\ skipped' = parked.skipped
    /\ result' = parked.result
    /\ UNCHANGED now

(* The calls the two threads make.                                         *)
ConcCalls ==
    {InitialLocals(f, PyNone, MaxConcTries, 10, 0) :
        f \in {"assert_", "true", "false"}}
    \cup {InitialLocals("return_", PyNone, 0, 10, MaxConcTimeout)}

InitConc ==
    /\ \E c \in ConcCalls :
        /\ fn = c.fn
        /\ message = c.message
        /\ tries = c.tries
        /\ interval = c.interval
        /\ timeout = c.timeout
        /\ pc = c.pc
        /\ i = c.i
        /\ errors = c.errors
        /\ return_value = c.return_value
        /\ start_time = c.start_time
        /\ time_spent = c.time_spent
        /\ next_execution = c.next_execution
        /\ calls = c.calls
        /\ sleeps = c.sleeps
        /\ skipped = c.skipped
        /\ result = c.result
    /\ parked \in ConcCalls
    /\ now = 0

NextConc ==
    \/ Next
    \/ Switch

SpecConc == InitConc /\ [][NextConc]_vars

----------------------------------------------------------------------------
(* Vocabulary of the properties.                                           *)

RaisedNoMoreTries == result.kind = "raise" /\ result.exc.type = "NoMoreTries"

Returned(o) == o.kind = "return"
RaisedAssertion(o) == o.kind = "raise" /\ o.exc.type = "AssertionError"
RaisedOther(o) == o.kind = "raise" /\ o.exc.type # "AssertionError"
RaisedOrdinary(o) ==
    o.kind = "raise" /\ o.exc.type \in {"AssertionError", "ValueError"}

RECURSIVE SumSeq(_)
SumSeq(q) == IF q = <<>> THEN 0 ELSE Head(q) + SumSeq(Tail(q))

(* The failure messages of the first n invocations, joined by newline from *)
(* the first to the last.                                                  *)
RECURSIVE JoinedMessages(_)
JoinedMessages(n) ==
    IF n = 0 THEN ""
    ELSE IF n = 1 THEN text_type(calls[1].exc)
    ELSE JoinedMessages(n - 1) \o "\n" \o text_type(calls[n].exc)

(* The offset of the last tick the generator yielded, counted from the     *)
(* schedule: interval/10 + (i-1) * interval.                               *)
LastTickOffset == (interval \div 10) + (i - 1) * interval

----------------------------------------------------------------------------
(* C1: in assert_, the first invocation of the probe that does not raise   *)
(* ends the call with a normal return and is the last invocation; before   *)
(* it only AssertionErrors were raised, k of them for k+1 invocations with *)
(* k < tries; and NoMoreTries is raised only when all of the tries         *)
(* invocations raised AssertionError.                                      *)
C1_AssertReturnsAfterFirstSuccess ==
    fn = "assert_" =>
        /\ \A j \in 1..Len(calls) :
            Returned(calls[j]) =>
                /\ j = Len(calls)
                /\ result.kind = "return"
                /\ pc = "done"
                /\ \A k \in 1..(j - 1) : RaisedAssertion(calls[k])
                /\ Len(errors) = j - 1
                /\ j <= tries
        /\ RaisedNoMoreTries /\ tries >= 0 =>
                /\ Len(calls) = tries
                /\ \A k \in 1..Len(calls) : RaisedAssertion(calls[k])

C1_Witness ==
    /\ fn = "assert_" /\ tries = 3 /\ Len(calls) = 3
    /\ RaisedAssertion(calls[1]) /\ RaisedAssertion(calls[2])
    /\ Returned(calls[3])
    /\ result.kind = "return"

----------------------------------------------------------------------------
(* C2, as claimed: when assert_ raises NoMoreTries, its message is the     *)
(* caller's message whenever one was supplied (anything but None), and the *)
(* captured messages joined by newline otherwise.                          *)
C2_Original ==
    fn = "assert_" /\ RaisedNoMoreTries =>
        result.exc.args =
            IF message # PyNone THEN <<message>>
            ELSE <<PyStr(JoinedMessages(Len(calls)))>>

(* C2, amended: when all of the tries = n invocations raised               *)
(* AssertionError, assert_ raises NoMoreTries whose message is the         *)
(* caller's message if that message is truthy, and otherwise (no message,  *)
(* or an empty one) the n captured messages joined by newline in the order *)
(* of the attempts.                                                        *)
C2_ExhaustionMessage ==
    fn = "assert_" /\ RaisedNoMoreTries =>
        /\ tries >= 0 => Len(calls) = tries
        /\ \A k \in 1..Len(calls) : RaisedAssertion(calls[k])
        /\ result.exc.args =
            IF message \notin {PyNone, PyStr("")} THEN <<message>>
            ELSE <<PyStr(JoinedMessages(Len(calls)))>>

C2_Witness ==
    /\ fn = "assert_" /\ RaisedNoMoreTries
    /\ message = PyStr("") /\ tries = 3
    /\ calls = <<Raise(Exc("AssertionError", <<PyStr("b")>>)),
                 Raise(Exc("AssertionError", <<PyStr("a"), PyInt(1)>>)),
                 Raise(Exc("AssertionError", <<PyStr("a")>>))>>
    /\ result.exc.args = <<PyStr("b\n('a', 1)\na")>>

----------------------------------------------------------------------------
(* C3: in true with tries >= 1, the first truthy value the probe returns   *)
(* is the last invocation and is exactly what the call returns, after at   *)
(* most tries invocations, all earlier ones having returned falsy values;  *)
(* and when NoMoreTries is raised, exactly tries invocations all returned  *)
(* falsy values and the failure carries exactly the caller's message.      *)
C3_TrueUntil ==
    fn = "true" /\ tries >= 1 =>
        /\ \A j \in 1..Len(calls) :
            Returned(calls[j]) /\ calls[j].value \in Truthy =>
                /\ j = Len(calls)
                /\ j <= tries
                /\ result = Return(calls[j].value)
        /\ result.kind = "return" =>
                /\ Len(calls) >= 1
                /\ result.value = calls[Len(calls)].value
                /\ result.value \in Truthy
                /\ \A k \in 1..(Len(calls) - 1) :
                    Returned(calls[k]) /\ calls[k].value \in Falsy
        /\ RaisedNoMoreTries =>
                /\ result.exc.args = <<message>>
                /\ Len(calls) = tries
                /\ \A k \in 1..Len(calls) :
                    Returned(calls[k]) /\ calls[k].value \in Falsy

C3_Witness ==
    /\ fn = "true" /\ tries = 3
    /\ calls = <<Return(PyFalse), Return(PyFalse), Return(PyStr("ready"))>>
    /\ result = Return(PyStr("ready"))

----------------------------------------------------------------------------
(* C4: in false with tries >= 1, the first falsy value the probe returns   *)
(* is the last invocation and is exactly what the call returns, after at   *)
(* most tries invocations, all earlier ones having returned truthy values; *)
(* and when NoMoreTries is raised, exactly tries invocations all returned  *)
(* truthy values and the failure carries exactly the caller's message.     *)
C4_FalseUntil ==
    fn = "false" /\ tries >= 1 =>
        /\ \A j \in 1..Len(calls) :
            Returned(calls[j]) /\ calls[j].value \in Falsy =>
                /\ j = Len(calls)
                /\ j <= tries
                /\ result = Return(calls[j].value)
        /\ result.kind = "return" =>
                /\ Len(calls) >= 1
                /\ result.value = calls[Len(calls)].value
                /\ result.value \in Falsy
                /\ \A k \in 1..(Len(calls) - 1) :
                    Returned(calls[k]) /\ calls[k].value \in Truthy
        /\ RaisedNoMoreTries =>
                /\ result.exc.args = <<message>>
                /\ Len(calls) = tries
                /\ \A k \in 1..Len(calls) :
                    Returned(calls[k]) /\ calls[k].value \in Truthy

C4_Witness ==
    /\ fn = "false" /\ tries = 3
    /\ calls = <<Return(PyTrue), Return(PyTrue), Return(PyFalse)>>
    /\ result = Return(PyFalse)

----------------------------------------------------------------------------
(* C5: in return_, an invocation of the probe that returns, whatever the   *)
(* value, is the last invocation: the call is over and its result is       *)
(* exactly that value, all earlier invocations having raised; and once the *)
(* call has returned, no step follows (no tick, no sleep, no invocation).  *)
C5_ReturnFirstValue ==
    /\ [](fn = "return_" =>
            /\ \A j \in 1..Len(calls) :
                Returned(calls[j]) =>
                    /\ j = Len(calls)
                    /\ pc = "done"
                    /\ result = Return(calls[j].value)
                    /\ \A k \in 1..(j - 1) : RaisedOrdinary(calls[k])
            /\ result.kind = "return" =>
                    /\ Len(calls) >= 1
                    /\ Returned(calls[Len(calls)])
                    /\ result.value = calls[Len(calls)].value)
    /\ [][fn = "return_" /\ result.kind = "return" => UNCHANGED vars]_vars

C5_Witness ==
    /\ fn = "return_" /\ Len(calls) = 2
    /\ RaisedOrdinary(calls[1])
    /\ calls[2] = Return(PyInt(0))
    /\ result = Return(PyInt(0))
    /\ pc = "done"

----------------------------------------------------------------------------
(* C6: in return_, an exception (an instance of Exception, the class line  *)
(* 144 names) that the probe raises never becomes the result of the call:  *)
(* the step that invokes the probe leaves the call running, at the header  *)
(* of the loop for the next tick; and NoMoreTries is raised only when the  *)
(* schedule is exhausted, every tick having been skipped or having had its *)
(* invocation raise, and carries exactly the caller's message.             *)
C6_ReturnSwallowsExceptions ==
    /\ [](fn = "return_" =>
            /\ \A j \in 1..Len(calls) :
                RaisedOrdinary(calls[j]) => result # Raise(calls[j].exc)
            /\ RaisedNoMoreTries =>
                    /\ result.exc.args = <<message>>
                    /\ ~(time_spent < timeout)
                    /\ \A k \in 1..Len(calls) : RaisedOrdinary(calls[k])
                    /\ Len(calls) + skipped = i)
    /\ [][fn = "return_" /\ Len(calls') > Len(calls)
            /\ RaisedOrdinary(calls'[Len(calls')])
          => pc' = "for" /\ result' = NoResult]_vars

C6_Witness ==
    /\ fn = "return_" /\ RaisedNoMoreTries
    /\ message = PyStr("timed out")
    /\ Len(calls) = 2 /\ skipped = 1
    /\ calls[1].exc.type = "ValueError"
    /\ calls[2].exc.type = "AssertionError"

----------------------------------------------------------------------------
(* C7: in assert_, an invocation that raises anything but an               *)
(* AssertionError is the last one: with it being the j-th invocation, the  *)
(* call is over, its result is that same exception (not NoMoreTries), and  *)
(* only the j-1 sleeps of the earlier attempts have happened.              *)
C7_AssertPropagatesOtherErrors ==
    fn = "assert_" =>
        \A j \in 1..Len(calls) :
            RaisedOther(calls[j]) =>
                /\ j = Len(calls)
                /\ pc = "done"
                /\ result = Raise(calls[j].exc)
                /\ ~RaisedNoMoreTries
                /\ Len(sleeps) = j - 1
                /\ Len(errors) = j - 1

C7_Witness ==
    /\ fn = "assert_" /\ tries = 3 /\ Len(calls) = 2
    /\ RaisedAssertion(calls[1])
    /\ calls[2].exc.type = "ValueError"
    /\ result = Raise(calls[2].exc)
    /\ Len(sleeps) = 1

----------------------------------------------------------------------------
(* C8: in true and false, an invocation that raises, whatever the error,   *)
(* is the last one: with it being the j-th invocation, the call is over,   *)
(* its result is that same exception (not NoMoreTries), and only the j-1   *)
(* sleeps of the earlier attempts have happened.                           *)
C8_TrueFalsePropagateErrors ==
    fn \in {"true", "false"} =>
        \A j \in 1..Len(calls) :
            calls[j].kind = "raise" =>
                /\ j = Len(calls)
                /\ pc = "done"
                /\ result = Raise(calls[j].exc)
                /\ ~RaisedNoMoreTries
                /\ Len(sleeps) = j - 1

C8_Witness ==
    /\ fn = "true" /\ tries = 3 /\ Len(calls) = 2
    /\ Returned(calls[1])
    /\ RaisedAssertion(calls[2])
    /\ result = Raise(calls[2].exc)
    /\ Len(sleeps) = 1

----------------------------------------------------------------------------
(* The calls C9 is about: tries = 1, or for return_ a timeout shorter than *)
(* one interval.                                                           *)
C9_SingleAttempt ==
    IF fn = "return_" THEN timeout < interval ELSE tries = 1

(* C9, as claimed: such a call invokes the probe at most once and performs *)
(* no sleep after an attempt; for return_, whose only sleep is the wait    *)
(* for the tick before the invocation, no sleep beyond that one.           *)
C9_Original ==
    C9_SingleAttempt =>
        /\ Len(calls) <= 1
        /\ IF fn = "return_"
           THEN Len(sleeps) <= 1 /\ Len(calls) <= Len(sleeps)
           ELSE Len(sleeps) = 0

(* C9, amended: such a call invokes the probe at most once and sleeps at   *)
(* most once.  In assert_, true and false there is no sleep when the       *)
(* attempt succeeds or its error propagates, and exactly one sleep of      *)
(* interval after a failing or non-matching attempt, before NoMoreTries is *)
(* raised.  In return_ the only sleep is the wait for the tick, before the *)
(* invocation.                                                             *)
C9_SingleAttemptSleepsOnceAtMost ==
    C9_SingleAttempt =>
        /\ Len(calls) <= 1
        /\ Len(sleeps) <= 1
        /\ IF fn = "return_"
           THEN Len(calls) <= Len(sleeps)
           ELSE /\ result.kind = "return" \/ (result.kind = "raise" /\ ~RaisedNoMoreTries)
                    => Len(calls) = 1 /\ sleeps = <<>>
                /\ RaisedNoMoreTries
                    => Len(calls) = 1 /\ sleeps = <<interval>>

C9_Witness ==
    /\ fn = "assert_" /\ tries = 1
    /\ RaisedNoMoreTries
    /\ Len(calls) = 1
    /\ sleeps = <<interval>>

----------------------------------------------------------------------------
(* C10, as claimed: when return_ raises NoMoreTries after the probe was    *)
(* invoked, about timeout has elapsed since the start of the call (give or *)
(* take the interval/10 of scheduling offset).                             *)
C10_Original ==
    fn = "return_" /\ RaisedNoMoreTries /\ Len(calls) >= 1 =>
        now - start_time >= timeout - (interval \div 10)

(* C10, amended: return_ raises NoMoreTries(message) as soon as the last   *)
(* tick of the schedule has been processed, without waiting for the        *)
(* timeout.  The call never sleeps beyond the target of its last tick,     *)
(* start + interval/10 + (n-1)*interval for n ticks, which lies strictly   *)
(* before start + timeout; so with a probe of negligible duration (all the *)
(* elapsed time was spent sleeping) the failure comes exactly at the last  *)
(* tick target, 0.05 s for timeout = 0.3 and interval = 0.5.  The moment   *)
(* of the failure is determined by the tick schedule and the duration of   *)
(* the probe, not by the timeout.                                          *)
C10_ExhaustionAtLastTick ==
    fn = "return_" /\ RaisedNoMoreTries =>
        /\ result.exc.args = <<message>>
        /\ i = 0 => now = start_time /\ timeout <= interval \div 10
        /\ i >= 1 =>
            /\ LastTickOffset < timeout
            /\ LastTickOffset + interval >= timeout
            /\ SumSeq(sleeps) <= LastTickOffset
            /\ now - start_time = SumSeq(sleeps) =>
                    now - start_time = LastTickOffset

C10_Witness ==
    /\ fn = "return_" /\ RaisedNoMoreTries
    /\ timeout = 6 /\ interval = 10
    /\ Len(calls) = 1
    /\ now - start_time = 1

----------------------------------------------------------------------------
(* A probe of negligible duration: all the time that has passed since the  *)
(* start of the call was spent in time.sleep.                              *)
NegligibleOverhead == now - start_time = SumSeq(sleeps)

(* C11: when return_ returns after a probe of negligible duration first    *)
(* succeeded on its (j+1)-th call, no tick was skipped and the time        *)
(* elapsed is that of tick j, interval/10 + j*interval, which lies before  *)
(* the timeout: one interval and a tenth for j = 1.                        *)
C11_ReturnsAtTickOfFirstSuccess ==
    fn = "return_" /\ result.kind = "return" /\ NegligibleOverhead =>
        /\ skipped = 0
        /\ i = Len(calls)
        /\ now - start_time = (interval \div 10) + (Len(calls) - 1) * interval
        /\ now - start_time < timeout

C11_Witness ==
    /\ fn = "return_" /\ timeout = 20 /\ interval = 10
    /\ Len(calls) = 2
    /\ RaisedOrdinary(calls[1])
    /\ calls[2] = Return(PyInt(42))
    /\ result = Return(PyInt(42))
    /\ now - start_time = 11

----------------------------------------------------------------------------
(* C12, as claimed: when a call of return_ is over, no more than timeout   *)
(* has elapsed since its start.                                            *)
C12_Original ==
    fn = "return_" /\ result # NoResult => now - start_time <= timeout

(* C12, amended: the time a call of return_ spends sleeping is bounded by  *)
(* timeout, and every probe invocation is scheduled for a tick target that *)
(* lies strictly before start + timeout, so that with a probe of           *)
(* negligible duration the total time stays within timeout.  The total     *)
(* wall-clock time is not bounded by timeout for every probe: an           *)
(* invocation that is running is never interrupted.                        *)
C12_SleepingBoundedByTimeout ==
    fn = "return_" =>
        /\ SumSeq(sleeps) <= timeout
        /\ sleeps # <<>> => SumSeq(sleeps) < timeout
        /\ i >= 1 => next_execution < start_time + timeout
        /\ NegligibleOverhead => now - start_time <= timeout

C12_Witness ==
    /\ fn = "return_" /\ timeout = 6 /\ interval = 10
    /\ Len(calls) = 1
    /\ SumSeq(sleeps) = 1
    /\ now - start_time > timeout
    /\ RaisedNoMoreTries

----------------------------------------------------------------------------
(* What the locals L of a call are when the call runs alone, given its     *)
(* arguments and what its own probe did (L.calls).                         *)

(* The result a call that is over has, from its arguments and its probe.   *)
AloneResult(L) ==
    LET n == Len(L.calls)
        msgs == [k \in 1..n |-> text_type(L.calls[k].exc)]
        exhausted ==
            IF L.fn = "assert_" /\ L.message \in {PyNone, PyStr("")}
            THEN Raise(NoMoreTries(PyStr(join("\n", msgs))))
            ELSE Raise(NoMoreTries(L.message))
    IN  IF n = 0 THEN exhausted
        ELSE IF L.calls[n].kind = "return"
        THEN IF L.fn = "assert_" THEN Return(PyNone)
             ELSE IF L.fn = "true" /\ L.calls[n].value \in Falsy THEN exhausted
             ELSE IF L.fn = "false" /\ L.calls[n].value \in Truthy THEN exhausted
             ELSE Return(L.calls[n].value)
        ELSE IF L.fn = "assert_" /\ L.calls[n].exc.type = "AssertionError"
        THEN exhausted
        ELSE IF L.fn = "return_"
                /\ L.calls[n].exc.type \in {"AssertionError", "ValueError"}
        THEN exhausted
        ELSE Raise(L.calls[n].exc)

(* The attempts of L.calls that make the loop go on.                       *)
AloneRetried(L) ==
    {k \in 1..Len(L.calls) :
        \/ L.fn = "assert_" /\ RaisedAssertion(L.calls[k])
        \/ L.fn = "true" /\ Returned(L.calls[k]) /\ L.calls[k].value \in Falsy
        \/ L.fn = "false" /\ Returned(L.calls[k]) /\ L.calls[k].value \in Truthy
        \/ L.fn = "return_" /\ RaisedOrdinary(L.calls[k])}

Alone(L) ==
    /\ L.pc = "done" <=> L.result # NoResult
    /\ L.result # NoResult =>
        \/ L.result = AloneResult(L)
        \/ /\ L.fn = "return_" /\ L.result.kind = "raise"
           /\ L.result.exc.type = "ValueError"
           /\ Len(L.sleeps) = Len(L.calls)
    /\ IF L.fn = "return_"
       THEN /\ L.i >= 1 =>
                /\ L.time_spent \in
                    {(L.interval \div 10) + (L.i - 1) * L.interval,
                     (L.interval \div 10) + L.i * L.interval}
                /\ L.next_execution =
                    L.start_time + (L.interval \div 10) + (L.i - 1) * L.interval
                /\ L.next_execution < L.start_time + L.timeout
            /\ Len(L.calls) + L.skipped <= L.i
            /\ Len(L.calls) <= Len(L.sleeps)
            /\ L.errors = <<>>
       ELSE /\ L.i = Cardinality(AloneRetried(L))
            /\ L.i <= (IF L.tries > 0 THEN L.tries ELSE 0)
            /\ Len(L.calls) \in {L.i, L.i + 1}
            /\ L.sleeps = [k \in 1..L.i |-> L.interval]
            /\ L.errors =
                IF L.fn = "assert_"
                THEN [k \in 1..L.i |-> text_type(L.calls[k].exc)]
                ELSE <<>>

(* C13: with two calls running in two threads, in every interleaving, the  *)
(* attempt counter, the list of errors, the tick schedule and the result   *)
(* of each call are what its own arguments and its own probe's outcomes    *)
(* make them when the call runs alone; a step of one call leaves the       *)
(* locals of the other untouched.                                          *)
C13_CallsDoNotInterfere ==
    /\ [](Alone(Locals) /\ Alone(parked))
    /\ [][parked' = parked \/ (parked' = Locals /\ Locals' = parked)]_vars

C13_Witness ==
    /\ fn = "assert_" /\ parked.fn = "return_"
    /\ pc = "for" /\ errors = <<"b">> /\ i = 1
    /\ parked.pc = "for" /\ parked.i = 1
    /\ Len(parked.calls) = 1 /\ parked.errors = <<>>
    /\ parked.result = NoResult /\ result = NoResult

----------------------------------------------------------------------------
(* C14: in return_, the tick targets are start_time + interval/10 +        *)
(* k*interval for k = 0, 1, ... while interval/10 + k*interval < timeout;  *)
(* a tick whose target the current time has passed is skipped without an   *)
(* invocation, and for any other tick the call sleeps until the target and *)
(* then invokes the probe; so each tick causes at most one invocation and  *)
(* no invocation starts before its tick target.                            *)
C14_TickHandling ==
    /\ [](fn = "return_" =>
            /\ i >= 1 =>
                /\ next_execution = start_time + LastTickOffset
                /\ LastTickOffset < timeout
            /\ Len(calls) + skipped <= i
            /\ pc = "call" => now >= next_execution)
    /\ [][fn = "return_" /\ pc = "check" =>
            IF now' > next_execution
            THEN /\ pc' = "for" /\ skipped' = skipped + 1
                 /\ calls' = calls /\ sleeps' = sleeps
            ELSE /\ pc' = "sleep" /\ skipped' = skipped]_vars
    /\ [][fn = "return_" /\ pc = "sleep" =>
            /\ pc' = "call"
            /\ now' >= next_execution
            /\ Len(sleeps') = Len(sleeps) + 1
            /\ result' = NoResult]_vars
    /\ [][fn = "return_" /\ pc = "call" =>
            Len(calls') = Len(calls) + 1 /\ skipped' = skipped]_vars

----------------------------------------------------------------------------
(* C15: in assert_, true and false, time.sleep(interval) follows every     *)
(* failing or non-matching attempt, the last one included: while the call  *)
(* runs and when it raises NoMoreTries there are as many sleeps as         *)
(* invocations (tries of them at NoMoreTries), and when the call returns   *)
(* after j invocations there were j-1 sleeps.                              *)
C15_SleepAfterEveryFailingAttempt ==
    fn \in {"assert_", "true", "false"} =>
        /\ \A k \in 1..Len(sleeps) : sleeps[k] = interval
        /\ result = NoResult => Len(sleeps) = Len(calls)
        /\ RaisedNoMoreTries =>
            /\ Len(sleeps) = Len(calls)
            /\ tries >= 0 => Len(calls) = tries
        /\ result.kind = "return" => Len(sleeps) = Len(calls) - 1

C15_Witness ==
    /\ fn = "true" /\ tries = 3
    /\ RaisedNoMoreTries
    /\ Len(calls) = 3
    /\ sleeps = <<interval, interval, interval>>

----------------------------------------------------------------------------
(* C16: every call of return_ whose probe invocations all terminate        *)
(* eventually terminates, by returning a value or by raising NoMoreTries   *)
(* (or with the error of a probe that left with something that is not an   *)
(* Exception, which the claim does not consider).                          *)
C16_ReturnTerminates ==
    fn = "return_" ~>
        \/ result.kind = "return"
        \/ RaisedNoMoreTries
        \/ /\ result.kind = "raise"
           /\ Len(calls) >= 1
           /\ result = calls[Len(calls)]
           /\ ~IsException(result.exc)

----------------------------------------------------------------------------
(* C17: in assert_, true and false the probe is never invoked more than    *)
(* tries times (not at all for tries <= 0); with tries <= 0 there is no    *)
(* invocation and no sleep, and the one step of the call raises            *)
(* NoMoreTries, with the caller's message or, for assert_ without a        *)
(* message, with the empty string.                                         *)
C17_AtMostTriesInvocations ==
    /\ [](fn \in {"assert_", "true", "false"} =>
            /\ Len(calls) <= (IF tries > 0 THEN tries ELSE 0)
            /\ tries <= 0 =>
                /\ calls = <<>> /\ sleeps = <<>> /\ errors = <<>>
                /\ result # NoResult =>
                    result =
                        IF fn = "assert_" /\ message \in {PyNone, PyStr("")}
                        THEN Raise(NoMoreTries(PyStr("")))
                        ELSE Raise(NoMoreTries(message)))
    /\ [][fn # "return_" /\ tries <= 0 /\ pc = "for"
            => (RaisedNoMoreTries')]_vars

C17_Witness ==
    /\ fn = "assert_" /\ tries = 0 /\ message = PyNone
    /\ result = Raise(NoMoreTries(PyStr("")))
    /\ calls = <<>> /\ sleeps = <<>>

----------------------------------------------------------------------------
(* The number of ticks of the schedule: the k >= 0 with                    *)
(* interval/10 + k*interval < timeout.                                     *)
NumberOfTicks ==
    Cardinality({k \in 0..timeout : (interval \div 10) + k * interval < timeout})

(* C18: in return_ with timeout <= interval/10 the schedule has no tick:   *)
(* the probe is never invoked, nothing sleeps and the one step of the call *)
(* raises NoMoreTries(message); otherwise the number of invocations, and   *)
(* of ticks yielded, never exceeds the number of ticks of the schedule.    *)
C18_InvocationsBoundedByTicks ==
    /\ [](fn = "return_" =>
            /\ timeout <= interval \div 10 =>
                /\ calls = <<>> /\ sleeps = <<>> /\ skipped = 0 /\ i = 0
                /\ now = start_time
                /\ result # NoResult => result = Raise(NoMoreTries(message))
            /\ Len(calls) <= NumberOfTicks
            /\ i <= NumberOfTicks
            /\ RaisedNoMoreTries => i = NumberOfTicks)
    /\ [][fn = "return_" /\ timeout <= interval \div 10 /\ pc = "for"
            => (RaisedNoMoreTries')]_vars

C18_Witness ==
    /\ fn = "return_" /\ interval = 20 /\ timeout = 2
    /\ result = Raise(NoMoreTries(message))
    /\ message = PyStr("timed out")
    /\ calls = <<>> /\ sleeps = <<>>

----------------------------------------------------------------------------
(* C19: assert_ returns None whatever the probe returned, and at any point *)
(* its list of errors holds the text of the AssertionError of each attempt *)
(* that raised one, one entry per such attempt, in the order of the        *)
(* attempts.                                                               *)
C19_AssertReturnsNoneAndKeepsErrors ==
    fn = "assert_" =>
        /\ result.kind = "return" => result.value = PyNone
        /\ LET failed == SelectSeq(calls, RaisedAssertion) IN
            /\ Len(errors) = Len(failed)
            /\ \A k \in 1..Len(failed) : errors[k] = text_type(failed[k].exc)

C19_Witness ==
    /\ fn = "assert_" /\ Len(calls) = 3
    /\ calls[3] = Return(PyInt(42))
    /\ result = Return(PyNone)
    /\ errors = <<"('a', 1)", "">>

====
